---- MODULE Spec2Model ----
(***************************************************************************)
(* Empty Response Cleaner: a chat plugin that removes empty AI response    *)
(* variants ("swipes") or whole empty AI messages.                         *)
(*                                                                         *)
(* Two generations of the plugin are modelled:                             *)
(*   - src/index.js: delegated mutation.  The plan is computed by          *)
(*     cleanMessageSwipes without mutating, and applied by awaited calls   *)
(*     of the host's deleteMessage primitive (specification Spec).         *)
(*   - src/unnamed/part_001 (and part_000, whose cleanMessageSwipes is     *)
(*     the same code): direct mutation.  cleanMessageSwipes rewrites the   *)
(*     message in place and processLastMessage splices the transcript      *)
(*     (specification SpecDirect).                                         *)
(*                                                                         *)
(* JavaScript values are tagged records, so that undefined, null, strings, *)
(* numbers and arrays stay distinguishable.  Indices are 0-based as in the *)
(* source; At(a, i) reads a[i].                                            *)
(***************************************************************************)
EXTENDS Integers, Sequences, FiniteSets, TLC

VARIABLES
    chat,                  \* the host's transcript: a sequence of messages
    settings,              \* extensionSettings[extensionName]
    apiAvailable,          \* typeof context.deleteMessage === 'function'
    isProcessing,          \* index.js:9
    lastScheduledCleanup,  \* index.js:10
    now,                   \* Date.now(), in ms
    timers,                \* pending setTimeout callbacks of the auto trigger
    passes,                \* the invocations of processLastMessageLocked
    inflight,              \* host deleteMessage calls issued and not settled
    out                    \* what the last handler step did (observation)

vars == <<chat, settings, apiAvailable, isProcessing, lastScheduledCleanup,
          now, timers, passes, inflight, out>>

----------------------------------------------------------------------------
(* Bounds of the model.                                                    *)

MaxChat == 2
MaxSwipes == 4
MaxDirectSwipes == 3
MaxPureSwipes == 3
MaxPasses == 2
MaxDeleteCalls == 1
MaxTimers == 1
MaxTicks == 2

----------------------------------------------------------------------------
(* JavaScript values.                                                      *)

Undefined == [t |-> "undefined"]
Null == [t |-> "null"]
Str(s) == [t |-> "string", s |-> s]
Num(n) == [t |-> "number", n |-> n]
Arr(a) == [t |-> "array", a |-> a]

IsString(v) == v.t = "string"
IsArray(v) == v.t = "array"
\* Number.isInteger(v)
IsInteger(v) == v.t = "number"

\* a[i] of a JavaScript array held as a sequence: undefined out of range
At(a, i) == IF i >= 0 /\ i < Len(a) THEN a[i + 1] ELSE Undefined

\* !v for the values of the model
Falsy(v) ==
    \/ v.t = "undefined"
    \/ v.t = "null"
    \/ v.t = "string" /\ v.s = <<>>

\* the characters String.prototype.trim strips, among those of the model
WhiteSpace == {" ", "\t", "\n"}

RECURSIVE TrimStart(_)
TrimStart(s) ==
    IF s # <<>> /\ Head(s) \in WhiteSpace THEN TrimStart(Tail(s)) ELSE s

RECURSIVE TrimEnd(_)
TrimEnd(s) ==
    IF s # <<>> /\ s[Len(s)] \in WhiteSpace
    THEN TrimEnd(SubSeq(s, 1, Len(s) - 1)) ELSE s

\* a string handed on as it is
TrimSkipped(s) == s

\* String.prototype.trim
Trim(s) == TrimEnd(TrimStart(s))

\* every text taken for empty
isSwipeEmptyAlways(swipe) == TRUE

\* isSwipeEmpty: !swipe || swipe.trim() === ''
isSwipeEmpty(swipe) == Falsy(swipe) \/ (IsString(swipe) /\ Trim(swipe.s) = <<>>)

\* String(v ?? '') for the values a variant takes
StringOf(v) == IF IsString(v) THEN v ELSE Str(<<>>)

Min(a, b) == IF a < b THEN a ELSE b
Max(a, b) == IF a > b THEN a ELSE b

\* the subsequence of a at the 1-based positions satisfying Keep
RECURSIVE SelectIdx(_, _, _)
SelectIdx(a, keep, i) ==
    IF i > Len(a) THEN <<>>
    ELSE (IF i \in keep THEN <<a[i]>> ELSE <<>>) \o SelectIdx(a, keep, i + 1)

\* a with its 0-based position i removed (Array.prototype.splice(i, 1))
RemoveAt(a, i) == SelectIdx(a, (1..Len(a)) \ {i + 1}, 1)

----------------------------------------------------------------------------
(* Messages.  id is the identity of the message object; the code never     *)
(* reads it.  swipe_info entries are opaque objects or holes.              *)

Obj(k) == [t |-> "object", k |-> k]

Message(id, is_user, mes, swipes, swipe_info, swipe_id) ==
    [id |-> id, is_user |-> is_user, mes |-> mes, swipes |-> swipes,
     swipe_info |-> swipe_info, swipe_id |-> swipe_id]

\* the loop of index.js:189-193 leaving at its first empty variant
RECURSIVE EmptyIndexesFirstOnly(_, _)
EmptyIndexesFirstOnly(a, i) ==
    IF i >= Len(a) THEN <<>>
    ELSE IF isSwipeEmpty(At(a, i)) THEN <<i>>
    ELSE EmptyIndexesFirstOnly(a, i + 1)

\* the loop of index.js:189-193 walking the variants from the last to the first
RECURSIVE EmptyIndexesDescending(_, _)
EmptyIndexesDescending(a, i) ==
    IF i >= Len(a) THEN <<>>
    ELSE EmptyIndexesDescending(a, i + 1)
         \o (IF isSwipeEmpty(At(a, i)) THEN <<i>> ELSE <<>>)

\* 0-based positions i of a with isSwipeEmpty(a[i]), ascending
\* (the loop of index.js:189-193)
RECURSIVE EmptyIndexesFrom(_, _)
EmptyIndexesFrom(a, i) ==
    IF i >= Len(a) THEN <<>>
    ELSE (IF isSwipeEmpty(At(a, i)) THEN <<i>> ELSE <<>>)
         \o EmptyIndexesFrom(a, i + 1)

NoResult ==
    [emptySwipeIndexes |-> <<>>, removedSwipes |-> 0,
     messageDeleted |-> FALSE, modified |-> FALSE]

\* index.js:205 never taken: an all-empty message handled variant by variant
AllSwipesEmptyIgnored(removedSwipes, length) == FALSE

\* index.js:205: result.removedSwipes === message.swipes.length
AllSwipesEmpty(removedSwipes, length) == removedSwipes = length

\* the candidate text never looked at
SoleCandidateIgnored(mes) == NoResult

\* index.js:181-186: the plan for a message without a swipes array
SoleCandidatePlan(mes) ==
    IF isSwipeEmpty(mes)
    THEN [NoResult EXCEPT !.messageDeleted = TRUE, !.modified = TRUE]
    ELSE NoResult

\* index.js cleanMessageSwipes: the plan, without mutating the message
cleanMessageSwipes(message) ==
    IF ~IsArray(message.swipes)
    THEN SoleCandidatePlan(message.mes)
    ELSE LET empty == EmptyIndexesFrom(message.swipes.a, 0)
             n == Len(empty)
         IN  IF n = 0
             THEN NoResult
             ELSE [emptySwipeIndexes |-> empty,
                   removedSwipes |-> n,
                   messageDeleted |-> AllSwipesEmpty(n, Len(message.swipes.a)),
                   modified |-> TRUE]

----------------------------------------------------------------------------
(* The host and the observation of a step.                                 *)

\* the swipeIndex of a whole-message deleteMessage call (undefined)
NoSwipe == -1

Toast(sev, text, n) == [sev |-> sev, text |-> text, n |-> n]

\* a deleteMessage(messageIndex, swipeIndex, false) call issued on transcript
\* c: by is the pass that awaits it (0: deleteLastMessage); onUser records
\* whether c[messageIndex] was user-authored when the call was made
Call(c, by, mi, si) ==
    [by |-> by, mi |-> mi, si |-> si,
     onUser |-> (mi >= 0 /\ mi < Len(c) /\ c[mi + 1].is_user)]

\* the locals of one invocation.  pc: idle | delMsg (awaiting the whole
\* message deletion) | delSwipe (awaiting a variant deletion) | uiTick
\* (inside repairAndRerenderMessage, awaiting waitForUiTick).
\* mid, had, planned, attempted and succeeded are observations: the message
\* the plan was made for, the number of variants it had then, the planned
\* positions, the positions deleteViaApi was called for so far, and the
\* number of host deletions that succeeded.
IdlePass ==
    [pc |-> "idle", isManual |-> FALSE, idx |-> -1, todo |-> <<>>,
     removedSwipes |-> 0, mid |-> 0, had |-> 0, planned |-> <<>>,
     attempted |-> <<>>, succeeded |-> 0]

\* the observation of a step: the handler that ran (op), for a pass its slot
\* and trigger, the notifications it raised, the host calls it issued, the
\* plan it computed (result), what the pass returned when it ended here
\* (ret), the position it located (idx), the message found there before the
\* step (before), whether the step asked the host to persist (persist), and
\* the locals of a pass that ended after awaiting the host or in its variant
\* loop (final)
Quiet ==
    [op |-> "none", p |-> 0, isManual |-> FALSE, toasts |-> <<>>,
     calls |-> <<>>, result |-> NoResult, ret |-> "none", idx |-> -1,
     persist |-> FALSE, before |-> Undefined, final |-> IdlePass]

\* the scan of index.js:228-235 stopping at the last message, whoever wrote it
LastOfAnyAuthorFrom(c, i) == i

\* the last message of c that is not user-authored, -1 if there is none
RECURSIVE LastAiFrom(_, _)
LastAiFrom(c, i) ==
    IF i < 0 THEN -1
    ELSE IF c[i + 1].is_user = FALSE THEN i
    ELSE LastAiFrom(c, i - 1)

LastAiMessageIndex(c) == LastAiFrom(c, Len(c) - 1)

\* whether the host can carry out deleteMessage(mi, si) on transcript c
HostCanDelete(c, mi, si) ==
    /\ mi >= 0 /\ mi < Len(c)
    /\ si # NoSwipe =>
          /\ IsArray(c[mi + 1].swipes)
          /\ si >= 0 /\ si < Len(c[mi + 1].swipes.a)

\* the transcript after the host carried out deleteMessage(mi, si): the whole
\* message, or exactly the variant si and its metadata entry
HostDelete(c, mi, si) ==
    IF si = NoSwipe
    THEN RemoveAt(c, mi)
    ELSE LET m == c[mi + 1]
         IN  [c EXCEPT ![mi + 1] =
                [m EXCEPT !.swipes = Arr(RemoveAt(m.swipes.a, si)),
                          !.swipe_info =
                              IF IsArray(m.swipe_info)
                              THEN Arr(RemoveAt(m.swipe_info.a, si))
                              ELSE m.swipe_info]]

----------------------------------------------------------------------------
(* index.js: the reconciliation pass (processLastMessage), a coroutine     *)
(* that suspends at each awaited host call and at the UI tick.             *)

\* [...a].sort((x, y) => y - x)
RECURSIVE InsertDescending(_, _)
InsertDescending(x, a) ==
    IF a = <<>> THEN <<x>>
    ELSE IF x >= Head(a) THEN <<x>> \o a
    ELSE <<Head(a)>> \o InsertDescending(x, Tail(a))

\* the planned positions walked as collected, ascending
SortSkipped(a) == a

RECURSIVE SortDescending(_)
SortDescending(a) ==
    IF a = <<>> THEN <<>>
    ELSE InsertDescending(Head(a), SortDescending(Tail(a)))

\* what a stretch of the pass did: the coroutine afterwards (idle when the
\* pass ended), the host calls issued, the notifications, the return value
\* ("pending" while suspended), the plan, and the locals at the end (final)
Step(pass, calls, toasts, ret, result) ==
    [pass |-> pass, calls |-> calls, toasts |-> toasts, ret |-> ret,
     result |-> result, final |-> IdlePass]

ApiMissingToast ==
    Toast("warning", "Cleanup skipped: compatible delete API not available", 0)
ApiFailedToast == Toast("warning", "Cleanup skipped: delete API failed", 0)

\* the notification raised on either trigger
ToastOnAnyTrigger(isManual, sev, text) == <<Toast(sev, text, 0)>>

ManualToast(isManual, sev, text) ==
    IF isManual THEN <<Toast(sev, text, 0)>> ELSE <<>>

\* index.js:298-307, after the loop
AfterLoop(rec, toasts) ==
    IF rec.removedSwipes > 0
    THEN [Step(IdlePass, <<>>,
               toasts \o <<Toast("info", "Removed empty swipes", rec.removedSwipes)>>,
               "true", NoResult) EXCEPT !.final = rec]
    ELSE [Step(IdlePass, <<>>,
               toasts \o ManualToast(rec.isManual, "warning",
                                     "Unable to remove empty swipes"),
               "false", NoResult) EXCEPT !.final = rec]

\* index.js:284-296 from the top of an iteration, on transcript c, up to the
\* next awaited host call or the end of the pass.  Without the host API
\* deleteViaApi returns false without suspending and the loop goes on.
RECURSIVE SwipeLoop(_, _, _, _)
SwipeLoop(c, p, rec, toasts) ==
    IF rec.todo = <<>>
    THEN AfterLoop(rec, toasts)
    ELSE LET swipeIndex == Head(rec.todo)
             nxt == [rec EXCEPT !.todo = Tail(@),
                                !.attempted = Append(@, swipeIndex)]
         IN  IF ~apiAvailable
             THEN SwipeLoop(c, p, nxt, toasts \o <<ApiMissingToast>>)
             ELSE Step([nxt EXCEPT !.pc = "delSwipe"],
                       <<Call(c, p, rec.idx, swipeIndex)>>, toasts, "pending",
                       NoResult)

\* the transcript-length guard left out
SoleMessageNever(c) == FALSE

\* index.js:263 (and 439): chat.length <= 1
SoleMessage(c) == Len(c) <= 1

\* index.js:217-285: processLastMessage from its start to its first awaited
\* host call, or to its return
processLastMessage(p, isManual) ==
    LET lastAiMessageIndex == LastAiMessageIndex(chat)
    IN  IF Len(chat) = 0
        THEN Step(IdlePass, <<>>,
                  ManualToast(isManual, "warning", "Chat is empty"),
                  "false", NoResult)
        ELSE IF lastAiMessageIndex = -1
        THEN Step(IdlePass, <<>>,
                  ManualToast(isManual, "warning", "No AI message found"),
                  "false", NoResult)
        ELSE IF ~isManual /\ ~settings.autoDelete
        THEN Step(IdlePass, <<>>, <<>>, "false", NoResult)
        ELSE
        LET message == chat[lastAiMessageIndex + 1]
            result == cleanMessageSwipes(message)
            rec == [IdlePass EXCEPT !.isManual = isManual,
                                    !.idx = lastAiMessageIndex,
                                    !.mid = message.id,
                                    !.had = IF IsArray(message.swipes)
                                            THEN Len(message.swipes.a) ELSE 0]
        IN  IF ~result.modified
            THEN Step(IdlePass, <<>>,
                      ManualToast(isManual, "info", "No empty swipes found"),
                      "false", result)
            ELSE IF result.messageDeleted
            THEN IF SoleMessage(chat)
                 THEN Step(IdlePass, <<>>,
                           ManualToast(isManual, "warning",
                                       "Cannot remove the only message in chat"),
                           "false", result)
                 ELSE IF ~apiAvailable
                 THEN Step(IdlePass, <<>>, <<ApiMissingToast>>, "false", result)
                 ELSE Step([rec EXCEPT !.pc = "delMsg"],
                           <<Call(chat, p, lastAiMessageIndex, NoSwipe)>>,
                           <<>>, "pending", result)
            ELSE LET st == SwipeLoop(chat, p,
                               [rec EXCEPT
                                  !.planned = result.emptySwipeIndexes,
                                  !.todo = SortDescending(result.emptySwipeIndexes)],
                               <<>>)
                 IN  [st EXCEPT !.result = result]

\* the message left as the host's deletion left it
RepairMessageSkipped(message) == message

\* index.js:91-98: clamp swipe_id and force mes to the active swipe
RepairMessage(message) ==
    IF IsArray(message.swipes) /\ Len(message.swipes.a) > 0
    THEN LET currentSwipeId ==
                 IF IsInteger(message.swipe_id) THEN message.swipe_id.n ELSE 0
             clampedSwipeId ==
                 Max(0, Min(currentSwipeId, Len(message.swipes.a) - 1))
             activeSwipe == At(message.swipes.a, clampedSwipeId)
         IN  [message EXCEPT !.swipe_id = Num(clampedSwipeId),
                             !.mes = StringOf(activeSwipe)]
    ELSE message

\* index.js:82-89: whether repairAndRerenderMessage goes past its early
\* returns (and so reaches waitForUiTick)
RepairApplies(c, messageIndex) ==
    /\ messageIndex >= 0 /\ messageIndex < Len(c)
    /\ c[messageIndex + 1].is_user # TRUE

\* index.js:78-98: repairAndRerenderMessage up to its await
repairAndRerenderMessage(c, messageIndex) ==
    IF RepairApplies(c, messageIndex)
    THEN [c EXCEPT ![messageIndex + 1] = RepairMessage(@)]
    ELSE c

\* the single-flight check left out
LockedNever == FALSE

\* index.js:316: the single-flight check
Locked == isProcessing

\* a try without the finally clause: the flag stays as the pass set it
FlagLeftSet == TRUE

\* index.js:323-325: the finally clause clears the flag however the pass ended
FlagAfterFinally == FALSE

FreeSlots == {p \in 1..MaxPasses : passes[p].pc = "idle"}
FreeSlot == CHOOSE p \in FreeSlots : \A q \in FreeSlots : p <= q

Observe(op, p, isManual, st) ==
    [Quiet EXCEPT !.op = op, !.p = p, !.isManual = isManual,
                  !.toasts = st.toasts, !.calls = st.calls,
                  !.result = st.result, !.ret = st.ret, !.final = st.final]

\* index.js:315-326: processLastMessageLocked, to the first suspension of the
\* pass or to its end (the finally clause then clears the flag)
processLastMessageLocked(isManual) ==
    IF Locked
    THEN /\ out' = [Quiet EXCEPT !.op = "dropped", !.isManual = isManual,
                                 !.ret = "false"]
         /\ UNCHANGED <<chat, isProcessing, passes, inflight>>
    ELSE /\ FreeSlots # {}
         /\ LET p == FreeSlot
                st == processLastMessage(p, isManual)
            IN  /\ passes' = [passes EXCEPT ![p] = st.pass]
                /\ inflight' = inflight \o st.calls
                /\ isProcessing' = IF st.ret = "pending" THEN TRUE
                                   ELSE FlagAfterFinally
                /\ out' = [Observe("start", p, isManual, st) EXCEPT
                             !.idx = LastAiMessageIndex(chat),
                             !.before = At(chat, LastAiMessageIndex(chat))]
         /\ UNCHANGED chat

\* index.js:409-411
onCleanLastMessageClick ==
    /\ processLastMessageLocked(TRUE)
    /\ UNCHANGED <<settings, apiAvailable, lastScheduledCleanup, now, timers>>

\* index.js:347-351: the callback of the 50 ms timer
TimerFires ==
    /\ timers > 0
    /\ timers' = timers - 1
    /\ processLastMessageLocked(FALSE)
    /\ UNCHANGED <<settings, apiAvailable, lastScheduledCleanup, now>>

\* a pass resumes with step st on transcript c
Resume(op, p, st, c) ==
    /\ chat' = c
    /\ passes' = [passes EXCEPT ![p] = st.pass]
    /\ isProcessing' = IF st.ret = "pending" THEN isProcessing
                       ELSE FlagAfterFinally
    /\ out' = Observe(op, p, passes[p].isManual, st)

\* index.js:270-277 without looking at what deleteViaApi returned
AfterDeleteMessageUnchecked(p, deleted, c) ==
    Resume("settled", p,
           [Step(IdlePass, <<>>,
                 <<Toast("info", "Removed empty AI response", 0)>>,
                 "true", NoResult) EXCEPT !.final = passes[p]], c)

\* index.js:270-277: the whole-message deletion of a pass settled
AfterDeleteMessage(p, deleted, c) ==
    IF deleted
    THEN Resume("settled", p,
                [Step(IdlePass, <<>>,
                      <<Toast("info", "Removed empty AI response", 0)>>,
                      "true", NoResult) EXCEPT !.final = passes[p]], c)
    ELSE Resume("settled", p,
                [Step(IdlePass, <<>>, <<ApiFailedToast>>, "false", NoResult)
                    EXCEPT !.final = passes[p]], c)

\* the loop left at the first failed deletion, as index.js:271-273 does for
\* the whole message
AbortAfterFailedSwipe(c, p, rec, toasts) ==
    [Step(IdlePass, <<>>, toasts, "false", NoResult) EXCEPT !.final = rec]

\* a failed position put back at the head of the positions to walk
RetryAfterFailedSwipe(c, p, rec, toasts) ==
    SwipeLoop(c, p,
              [rec EXCEPT !.todo = <<rec.attempted[Len(rec.attempted)]>> \o @],
              toasts)

\* index.js:284-296: deleteViaApi returned false; the loop goes on with the
\* next position
AfterFailedSwipe(c, p, rec, toasts) == SwipeLoop(c, p, rec, toasts)

\* index.js:285-296: a variant deletion of a pass settled
AfterDeleteSwipe(p, deleted, c) ==
    LET rec == passes[p]
    IN  IF deleted
        THEN LET counted == [rec EXCEPT !.removedSwipes = @ + 1,
                                        !.succeeded = @ + 1]
             IN  IF RepairApplies(c, rec.idx)
                 THEN Resume("settled", p,
                             Step([counted EXCEPT !.pc = "uiTick"], <<>>, <<>>,
                                  "pending", NoResult),
                             repairAndRerenderMessage(c, rec.idx))
                 ELSE Resume("settled", p, SwipeLoop(c, p, counted, <<>>), c)
        ELSE Resume("settled", p,
                    AfterFailedSwipe(c, p, rec, <<ApiFailedToast>>), c)

\* index.js:444-451: the deletion of deleteLastMessage settled
AfterDeleteLast(deleted, c) ==
    /\ chat' = c
    /\ out' = [Quiet EXCEPT
                 !.op = "deleteLastSettled",
                 !.toasts = IF deleted
                            THEN <<Toast("info", "Deleted last AI message", 0)>>
                            ELSE <<ApiFailedToast>>,
                 !.ret = IF deleted THEN "true" ELSE "false"]
    /\ UNCHANGED <<passes, isProcessing>>

\* index.js:156-163: an awaited deleteMessage call settles, resolved (the host
\* carried the deletion out) or rejected (it did not), and its caller resumes
DeleteSettles ==
    \E k \in 1..Len(inflight), deleted \in BOOLEAN :
        LET call == inflight[k]
            c == IF deleted THEN HostDelete(chat, call.mi, call.si) ELSE chat
        IN  /\ deleted => HostCanDelete(chat, call.mi, call.si)
            /\ IF call.by = 0
               THEN AfterDeleteLast(deleted, c)
               ELSE IF passes[call.by].pc = "delMsg"
               THEN AfterDeleteMessage(call.by, deleted, c)
               ELSE AfterDeleteSwipe(call.by, deleted, c)
            /\ inflight' = RemoveAt(inflight, k - 1) \o out'.calls
            /\ UNCHANGED <<settings, apiAvailable, lastScheduledCleanup, now,
                           timers>>

\* index.js:100-129 and 284-296: the UI tick of repairAndRerenderMessage
\* passed; the message block is re-rendered and the loop goes on
UiTickPasses ==
    \E p \in 1..MaxPasses :
        /\ passes[p].pc = "uiTick"
        /\ Resume("uiTick", p, SwipeLoop(chat, p, passes[p], <<>>), chat)
        /\ inflight' = inflight \o out'.calls
        /\ UNCHANGED <<settings, apiAvailable, lastScheduledCleanup, now,
                       timers>>

\* index.js:319-325: a pass resumed after the UI tick and a call to the host
\* (the re-render log, the notification sink) threw; the exception leaves
\* processLastMessage, the finally clause runs and the promise rejects
PassThrows ==
    \E p \in 1..MaxPasses :
        /\ passes[p].pc = "uiTick"
        /\ passes' = [passes EXCEPT ![p] = IdlePass]
        /\ isProcessing' = FlagAfterFinally
        /\ out' = [Quiet EXCEPT !.op = "threw", !.p = p,
                                !.isManual = passes[p].isManual,
                                !.ret = "threw", !.final = passes[p]]
        /\ UNCHANGED <<chat, settings, apiAvailable, lastScheduledCleanup, now,
                       timers, inflight>>

----------------------------------------------------------------------------
(* index.js: deleteLastMessage, the automatic trigger, the settings.       *)

DeleteLastCalls == Len(SelectSeq(inflight, LAMBDA call : call.by = 0))

\* index.js:417-444 and 457-459: deleteLastMessage to its awaited host call
\* or to its return
onDeleteLastMessageClick ==
    LET lastAiMessageIndex == LastAiMessageIndex(chat)
        refused ==
            IF Len(chat) = 0 THEN <<Toast("warning", "Chat is empty", 0)>>
            ELSE IF lastAiMessageIndex = -1
            THEN <<Toast("warning", "No AI message found", 0)>>
            ELSE IF SoleMessage(chat)
            THEN <<Toast("warning", "Cannot remove the only message in chat", 0)>>
            ELSE IF ~apiAvailable THEN <<ApiMissingToast>>
            ELSE <<>>
    IN  /\ IF refused # <<>>
           THEN /\ out' = [Quiet EXCEPT !.op = "deleteLast", !.toasts = refused,
                                        !.ret = "false"]
                /\ UNCHANGED inflight
           ELSE /\ DeleteLastCalls < MaxDeleteCalls
                /\ out' = [Quiet EXCEPT
                             !.op = "deleteLast",
                             !.calls = <<Call(chat, 0, lastAiMessageIndex, NoSwipe)>>,
                             !.ret = "pending"]
                /\ inflight' = inflight \o out'.calls
        /\ UNCHANGED <<chat, settings, apiAvailable, isProcessing,
                       lastScheduledCleanup, now, timers, passes>>

DedupeWindowMs == 500
TickMs == 250

\* the dedupe test left out
WithinDedupeWindowNever(messageIndex) == FALSE

\* index.js:338: the trigger repeats the last scheduled one within the window
WithinDedupeWindow(messageIndex) ==
    /\ lastScheduledCleanup.messageIndex = Num(messageIndex)
    /\ (now - lastScheduledCleanup.at) < DedupeWindowMs

\* index.js:334-352.  seen is an observation: for each position, when a
\* trigger for it was last scheduled (-1: never).
scheduleAutoCleanup(messageIndex) ==
    IF WithinDedupeWindow(messageIndex)
    THEN /\ out' = [Quiet EXCEPT !.op = "deduped", !.idx = messageIndex]
         /\ UNCHANGED <<lastScheduledCleanup, timers>>
    ELSE /\ timers < MaxTimers
         /\ lastScheduledCleanup' =
                [messageIndex |-> Num(messageIndex), at |-> now,
                 seen |-> [lastScheduledCleanup.seen EXCEPT ![messageIndex] = now]]
         /\ timers' = timers + 1
         /\ out' = [Quiet EXCEPT !.op = "scheduled", !.idx = messageIndex]

\* the positions the host may report: a number from -1 to the length of the
\* transcript (so below, inside and past it), or no number at all
ReportedPositions == {Undefined} \cup {Num(i) : i \in -1..Len(chat)}

\* the master switch not looked at
AutoCleanEnabledAlways == TRUE

\* index.js:363: settings.enabled
AutoCleanEnabled == settings.enabled

\* index.js:359-384
onCharacterMessageRendered ==
    \E messageIndex \in ReportedPositions :
        /\ IF ~AutoCleanEnabled
           THEN /\ out' = [Quiet EXCEPT !.op = "triggerOff"]
                /\ UNCHANGED <<lastScheduledCleanup, timers>>
           ELSE IF \/ ~IsInteger(messageIndex)
                   \/ messageIndex.n < 0
                   \/ messageIndex.n >= Len(chat)
           THEN scheduleAutoCleanup(-1)
           ELSE IF chat[messageIndex.n + 1].is_user = TRUE
           THEN /\ out' = [Quiet EXCEPT !.op = "triggerUser",
                                        !.idx = messageIndex.n]
                /\ UNCHANGED <<lastScheduledCleanup, timers>>
           ELSE scheduleAutoCleanup(messageIndex.n)
        /\ UNCHANGED <<chat, settings, apiAvailable, isProcessing, now, passes,
                       inflight>>

\* index.js:389-394
onEnabledToggle ==
    \E enabled \in BOOLEAN :
        /\ settings' = [settings EXCEPT !.enabled = enabled]
        /\ out' = [Quiet EXCEPT !.op = "toggle"]
        /\ UNCHANGED <<chat, apiAvailable, isProcessing, lastScheduledCleanup,
                       now, timers, passes, inflight>>

\* index.js:399-404
onAutoDeleteToggle ==
    \E autoDelete \in BOOLEAN :
        /\ settings' = [settings EXCEPT !.autoDelete = autoDelete]
        /\ out' = [Quiet EXCEPT !.op = "toggle"]
        /\ UNCHANGED <<chat, apiAvailable, isProcessing, lastScheduledCleanup,
                       now, timers, passes, inflight>>

\* time passes (Date.now() of index.js:335)
Tick ==
    /\ now < DedupeWindowMs + MaxTicks * TickMs
    /\ now' = now + TickMs
    /\ out' = [Quiet EXCEPT !.op = "tick"]
    /\ UNCHANGED <<chat, settings, apiAvailable, isProcessing,
                   lastScheduledCleanup, timers, passes, inflight>>

----------------------------------------------------------------------------
(* Initial transcripts.                                                    *)

RECURSIVE SeqsUpTo(_, _)
SeqsUpTo(S, n) ==
    IF n = 0 THEN {<<>>}
    ELSE LET shorter == SeqsUpTo(S, n - 1)
         IN  shorter \cup {Append(a, x) : a \in {b \in shorter : Len(b) = n - 1}, x \in S}

\* variant texts: null, blank, and a non-empty text
SwipeTexts == {Null, Str(<<" ">>), Str(<<"a">>)}

\* pointers of a message with n variants: absent, below the first position,
\* the first, the last, and past the end
SwipeIdsFor(n) == {Undefined} \cup {Num(i) : i \in {-1, 0, n - 1, n}}

\* a user-authored message: no variants
UserMessage == Message(0, TRUE, Str(<<"a">>), Undefined, Undefined, Undefined)

\* AI-authored messages without variants
PlainAiMessages ==
    {Message(0, FALSE, mes, Undefined, Undefined, Undefined) :
        mes \in {Str(<<>>), Str(<<"a">>)}}

\* AI-authored messages with variants and any pointer
SwipedAiMessages ==
    UNION {{Message(0, FALSE, Str(<<"a">>), Arr(a), Undefined, id) :
               id \in SwipeIdsFor(Len(a))} :
           a \in SeqsUpTo(SwipeTexts, MaxSwipes)}

WithIds(c) == [i \in 1..Len(c) |-> [c[i] EXCEPT !.id = i]]

\* transcripts: earlier messages (user-authored or plain AI), then possibly an
\* AI message with variants, then user-authored messages
InitChats ==
    LET Earlier == SeqsUpTo({UserMessage} \cup PlainAiMessages, MaxChat)
        Later == SeqsUpTo({UserMessage}, MaxChat)
        Middle == {<<>>} \cup {<<m>> : m \in SwipedAiMessages}
    IN  {WithIds(pre \o mid \o post) :
            pre \in Earlier, mid \in Middle,
            post \in {l \in Later : TRUE}}

\* the state of the plugin once loaded
Loaded ==
    /\ isProcessing = FALSE
    /\ lastScheduledCleanup =
           [messageIndex |-> Null, at |-> 0,
            seen |-> [i \in -1..(MaxChat - 1) |-> -1]]
    /\ now = DedupeWindowMs
    /\ passes = [p \in 1..MaxPasses |-> IdlePass]
    /\ inflight = <<>>
    /\ out = Quiet

\* The passes: any transcript, the default settings (index.js:4-7), with or
\* without the host API, and MaxTimers automatic triggers scheduled, each of
\* which may fire at any later moment or never.
Init ==
    /\ chat \in {c \in InitChats : Len(c) <= MaxChat}
    /\ settings = [enabled |-> TRUE, autoDelete |-> TRUE]
    /\ apiAvailable \in BOOLEAN
    /\ timers = MaxTimers
    /\ Loaded

Next ==
    \/ onCleanLastMessageClick
    \/ TimerFires
    \/ DeleteSettles
    \/ UiTickPasses
    \/ onDeleteLastMessageClick
    \/ onAutoDeleteToggle

Spec == Init /\ [][Next]_vars

\* index.js:156-163: an awaited deleteMessage call of a pass settles
PassCallSettles == DeleteSettles /\ out'.op = "settled"

MaxLiveSwipes == 3

\* transcripts for the runs to completion: those whose message with
\* variants, if any, has at most MaxLiveSwipes of them and no pointer
LiveChats ==
    {c \in InitChats :
        /\ Len(c) <= MaxChat
        /\ \A i \in 1..Len(c) :
              IsArray(c[i].swipes) =>
                  /\ Len(c[i].swipes.a) <= MaxLiveSwipes
                  /\ c[i].swipe_id = Undefined}

InitLive ==
    /\ chat \in LiveChats
    /\ settings = [enabled |-> TRUE, autoDelete |-> TRUE]
    /\ apiAvailable \in BOOLEAN
    /\ timers = MaxTimers
    /\ Loaded

NextLive ==
    \/ onCleanLastMessageClick
    \/ TimerFires
    \/ DeleteSettles
    \/ UiTickPasses
    \/ onDeleteLastMessageClick

\* the program when every host call a pass awaits settles and every UI tick
\* (requestAnimationFrame or the 0 ms timer of index.js:61-70) comes
SpecLive ==
    /\ InitLive /\ [][NextLive]_vars
    /\ WF_vars(PassCallSettles)
    /\ WF_vars(UiTickPasses)

----------------------------------------------------------------------------
(* index.js: the automatic trigger.  The host reports rendered messages,   *)
(* time passes, the scheduled callbacks fire and their passes run.         *)

\* transcripts of the automatic trigger: those whose message with variants,
\* if any, has two of them and no pointer
AutoChats ==
    {c \in InitChats :
        /\ Len(c) <= MaxChat
        /\ \A i \in 1..Len(c) :
              IsArray(c[i].swipes) =>
                  Len(c[i].swipes.a) = 2 /\ c[i].swipe_id = Undefined}

InitAuto ==
    /\ chat \in AutoChats
    /\ settings = [enabled |-> TRUE, autoDelete |-> TRUE]
    /\ apiAvailable \in BOOLEAN
    /\ timers = 0
    /\ Loaded

NextAuto ==
    \/ onCharacterMessageRendered
    \/ Tick
    \/ TimerFires
    \/ DeleteSettles
    \/ UiTickPasses
    \/ onEnabledToggle
    \/ onCleanLastMessageClick
    \/ PassThrows

SpecAuto == InitAuto /\ [][NextAuto]_vars

----------------------------------------------------------------------------
(* part_001: direct mutation.  Everything is synchronous, so each handler  *)
(* is one step.                                                            *)

DirectNoResult == [removedSwipes |-> 0, messageDeleted |-> FALSE, modified |-> FALSE]

\* part_001:73-81: the non-empty variants in order, and the metadata entries
\* of those of them that have one
RECURSIVE NonNullSwipesFrom(_, _)
NonNullSwipesFrom(a, i) ==
    IF i >= Len(a) THEN <<>>
    ELSE (IF At(a, i) \notin {Undefined, Null} THEN <<At(a, i)>> ELSE <<>>)
         \o NonNullSwipesFrom(a, i + 1)

RECURSIVE NonEmptySwipesFrom(_, _)
NonEmptySwipesFrom(a, i) ==
    IF i >= Len(a) THEN <<>>
    ELSE (IF ~isSwipeEmpty(At(a, i)) THEN <<At(a, i)>> ELSE <<>>)
         \o NonEmptySwipesFrom(a, i + 1)

\* the metadata handed on as it was
SwipeInfoUntouched(a, info, i) == IF IsArray(info) THEN info.a ELSE <<>>

RECURSIVE NonEmptySwipeInfoFrom(_, _, _)
NonEmptySwipeInfoFrom(a, info, i) ==
    IF i >= Len(a) THEN <<>>
    ELSE (IF /\ ~isSwipeEmpty(At(a, i))
             /\ IsArray(info)
             /\ At(info.a, i).t = "object"
          THEN <<At(info.a, i)>> ELSE <<>>)
         \o NonEmptySwipeInfoFrom(a, info, i + 1)

\* part_001:104-113 without the floor at 0
RepairSwipeIdDirectNoFloor(swipe_id, n) ==
    IF ~IsInteger(swipe_id) THEN swipe_id
    ELSE Num(IF swipe_id.n >= n THEN n - 1 ELSE swipe_id.n)

\* part_001:104-113: swipe_id after the variants were replaced by n of them;
\* a swipe_id that is no number fails both comparisons and stays
RepairSwipeIdDirect(swipe_id, n) ==
    IF ~IsInteger(swipe_id) THEN swipe_id
    ELSE LET upper == IF swipe_id.n >= n THEN n - 1 ELSE swipe_id.n
         IN  Num(IF upper < 0 THEN 0 ELSE upper)

\* the first variant taken whatever the pointer says
ActiveSwipeFirst(a, swipe_id) == At(a, 0)

\* part_001:116: swipes[swipe_id]
ActiveSwipeDirect(a, swipe_id) ==
    IF IsInteger(swipe_id) THEN At(a, swipe_id.n) ELSE Undefined

\* part_001:52-120 (part_000:47-117 is the same code): cleanMessageSwipes,
\* which mutates the message; the result and the message afterwards
cleanMessageSwipesDirect(message) ==
    IF ~IsArray(message.swipes)
    THEN [result |-> IF isSwipeEmpty(message.mes)
                     THEN [DirectNoResult EXCEPT !.messageDeleted = TRUE,
                                                 !.modified = TRUE]
                     ELSE DirectNoResult,
          message |-> message]
    ELSE LET nonEmptySwipes == NonEmptySwipesFrom(message.swipes.a, 0)
             nonEmptySwipeInfo ==
                 NonEmptySwipeInfoFrom(message.swipes.a, message.swipe_info, 0)
             removedSwipes == Len(message.swipes.a) - Len(nonEmptySwipes)
         IN  IF Len(nonEmptySwipes) = 0
             THEN [result |-> [removedSwipes |-> removedSwipes,
                               messageDeleted |-> TRUE, modified |-> TRUE],
                   message |-> message]
             ELSE IF removedSwipes > 0
             THEN LET swipe_id == RepairSwipeIdDirect(message.swipe_id,
                                                      Len(nonEmptySwipes))
                  IN  [result |-> [removedSwipes |-> removedSwipes,
                                   messageDeleted |-> FALSE, modified |-> TRUE],
                       message |->
                           [message EXCEPT
                              !.swipes = Arr(nonEmptySwipes),
                              !.swipe_info = IF IsArray(@)
                                             THEN Arr(nonEmptySwipeInfo) ELSE @,
                              !.swipe_id = swipe_id,
                              !.mes = ActiveSwipeDirect(nonEmptySwipes, swipe_id)]]
             ELSE [result |-> [DirectNoResult EXCEPT !.removedSwipes = removedSwipes],
                   message |-> message]

DirectStep(c, toasts, ret, result, persist) ==
    [chat |-> c, toasts |-> toasts, ret |-> ret, result |-> result,
     persist |-> persist]

\* part_001:127-191: processLastMessage
processLastMessageDirect(isManual) ==
    LET lastAiMessageIndex == LastAiMessageIndex(chat)
    IN  IF Len(chat) = 0
        THEN DirectStep(chat, ManualToast(isManual, "warning", "Chat is empty"),
                        "false", DirectNoResult, FALSE)
        ELSE IF lastAiMessageIndex = -1
        THEN DirectStep(chat,
                        ManualToast(isManual, "warning", "No AI message found"),
                        "false", DirectNoResult, FALSE)
        ELSE
        LET cleaned == cleanMessageSwipesDirect(chat[lastAiMessageIndex + 1])
            result == cleaned.result
            c == [chat EXCEPT ![lastAiMessageIndex + 1] = cleaned.message]
        IN  IF ~result.modified
            THEN DirectStep(c, ManualToast(isManual, "info", "No empty swipes found"),
                            "false", result, FALSE)
            ELSE IF result.messageDeleted
            THEN IF Len(c) <= 1
                 THEN DirectStep(c, ManualToast(isManual, "warning",
                                       "Cannot remove the only message in chat"),
                                 "false", result, FALSE)
                 ELSE IF ~isManual /\ ~settings.autoDelete
                 THEN DirectStep(c, <<>>, "false", result, FALSE)
                 ELSE DirectStep(RemoveAt(c, lastAiMessageIndex),
                                 <<Toast("info", "Removed empty AI response", 0)>>,
                                 "true", result, TRUE)
            ELSE DirectStep(c,
                            IF result.removedSwipes > 0
                            THEN <<Toast("info", "Removed empty swipes",
                                         result.removedSwipes)>>
                            ELSE <<>>,
                            "true", result, TRUE)

DirectPass(isManual) ==
    LET st == processLastMessageDirect(isManual)
    IN  /\ chat' = st.chat
        /\ out' = [Quiet EXCEPT !.op = "start", !.isManual = isManual,
                                !.toasts = st.toasts, !.result = st.result,
                                !.ret = st.ret, !.persist = st.persist,
                                !.idx = LastAiMessageIndex(chat),
                                !.before = At(chat, LastAiMessageIndex(chat))]

DirectFrame ==
    UNCHANGED <<apiAvailable, isProcessing, lastScheduledCleanup, now, passes,
                inflight>>

\* part_001:250-252: the manual clean button
onCleanLastMessageClickDirect ==
    /\ DirectPass(TRUE)
    /\ UNCHANGED <<settings, timers>>
    /\ DirectFrame

\* part_001:210-212 and 224-226: the callback of the 100 ms timer
TimerFiresDirect ==
    /\ timers > 0
    /\ timers' = timers - 1
    /\ DirectPass(FALSE)
    /\ UNCHANGED settings
    /\ DirectFrame

\* part_001:197-227: onMessageReceived
onMessageReceived ==
    \E messageIndex \in ReportedPositions :
        /\ IF ~settings.enabled
           THEN /\ out' = [Quiet EXCEPT !.op = "triggerOff"]
                /\ UNCHANGED timers
           ELSE IF \/ ~IsInteger(messageIndex)
                   \/ messageIndex.n < 0
                   \/ messageIndex.n >= Len(chat)
           THEN /\ timers < MaxTimers
                /\ timers' = timers + 1
                /\ out' = [Quiet EXCEPT !.op = "scheduled"]
           ELSE IF chat[messageIndex.n + 1].is_user = TRUE
           THEN /\ out' = [Quiet EXCEPT !.op = "triggerUser"]
                /\ UNCHANGED timers
           ELSE /\ timers < MaxTimers
                /\ timers' = timers + 1
                /\ out' = [Quiet EXCEPT !.op = "scheduled"]
        /\ UNCHANGED <<chat, settings>>
        /\ DirectFrame

\* part_001:260-291: deleteLastMessage
onDeleteLastMessageClickDirect ==
    LET lastAiMessageIndex == LastAiMessageIndex(chat)
        refused ==
            IF Len(chat) = 0 THEN <<Toast("warning", "Chat is empty", 0)>>
            ELSE IF lastAiMessageIndex = -1
            THEN <<Toast("warning", "No AI message found", 0)>>
            ELSE IF Len(chat) <= 1
            THEN <<Toast("warning", "Cannot remove the only message in chat", 0)>>
            ELSE <<>>
    IN  /\ IF refused # <<>>
           THEN /\ out' = [Quiet EXCEPT !.op = "deleteLast", !.toasts = refused,
                                        !.ret = "false"]
                /\ UNCHANGED chat
           ELSE /\ chat' = RemoveAt(chat, lastAiMessageIndex)
                /\ out' = [Quiet EXCEPT
                             !.op = "deleteLast",
                             !.toasts = <<Toast("info", "Deleted last AI message", 0)>>,
                             !.ret = "true", !.persist = TRUE]
        /\ UNCHANGED <<settings, timers>>
        /\ DirectFrame

\* variant texts of the direct-mutation transcripts
DirectTexts == {Null, Str(<<" ">>), Str(<<"a">>), Str(<<" ", "b">>)}

\* candidate texts of a message without variants
PlainTexts ==
    {Undefined, Null, Str(<<>>), Str(<<" ">>), Str(<<" ", " ">>), Str(<<"a">>),
     Str(<<" ", "b">>), Str(<<"a", " ">>)}

\* swipe_info of a message with n variants: absent, index-aligned, one entry
\* short, or with a hole for the first variant
SwipeInfos(n) ==
    LET aligned == [i \in 1..n |-> Obj(i)]
    IN  {Undefined, Arr(aligned)}
        \cup (IF n >= 1
              THEN {Arr(SubSeq(aligned, 1, n - 1)),
                    Arr([aligned EXCEPT ![1] = Undefined])}
              ELSE {})

DirectAiMessages ==
    {Message(0, FALSE, mes, Undefined, Undefined, Undefined) : mes \in PlainTexts}
    \cup
    UNION {{Message(0, FALSE, Str(<<"a">>), Arr(a), info, id) :
               info \in SwipeInfos(Len(a)), id \in SwipeIdsFor(Len(a))} :
           a \in SeqsUpTo(DirectTexts, MaxDirectSwipes)}

InitChatsDirect ==
    LET Earlier == SeqsUpTo({UserMessage}, MaxChat)
        Later == SeqsUpTo({UserMessage}, MaxChat)
        Middle == {<<>>} \cup {<<m>> : m \in DirectAiMessages}
    IN  {WithIds(pre \o mid \o post) :
            pre \in Earlier, mid \in Middle, post \in Later}

InitDirect ==
    /\ chat \in {c \in InitChatsDirect : Len(c) <= MaxChat}
    /\ settings \in [enabled : {TRUE}, autoDelete : BOOLEAN]
    /\ apiAvailable = FALSE
    /\ timers = 0
    /\ Loaded

NextDirect ==
    \/ onCleanLastMessageClickDirect
    \/ TimerFiresDirect
    \/ onMessageReceived
    \/ onDeleteLastMessageClickDirect
    \/ onEnabledToggle
    \/ onAutoDeleteToggle

SpecDirect == InitDirect /\ [][NextDirect]_vars

----------------------------------------------------------------------------
(* The pure functions on their own: isSwipeEmpty and the two generations   *)
(* of cleanMessageSwipes, applied to one message drawn from a wider set of *)
(* texts than the transcripts above.                                       *)

\* candidate texts: absent, null, empty, whitespace only, and texts with a
\* non-whitespace character at either end or in the middle
PureTexts ==
    {Undefined, Null, Str(<<>>), Str(<<" ">>), Str(<<"\t">>), Str(<<" ", "\n">>),
     Str(<<"a">>), Str(<<" ", "a">>), Str(<<"a", "\t">>), Str(<<"\n", "a", " ">>),
     Str(<<"a", " ", "b">>)}

\* variant texts
PureSwipeTexts == {Null, Str(<<>>), Str(<<" ">>), Str(<<"a">>), Str(<<" ", "b">>)}

\* messages without a variants sequence (swipes absent, null, or no array), or
\* with an empty one, with any candidate text; and messages with variants,
\* whose pointer is absent, at or next to either end, or at the second variant
PureMessages ==
    {Message(1, FALSE, mes, swipes, Undefined, Undefined) :
        mes \in PureTexts, swipes \in {Undefined, Null, Str(<<"a">>), Arr(<<>>)}}
    \cup
    UNION {{Message(1, FALSE, mes, Arr(a), info, id) :
               mes \in {Str(<<>>), Str(<<"a">>)},
               info \in SwipeInfos(Len(a)),
               id \in SwipeIdsFor(Len(a)) \cup {Num(1)}} :
           a \in SeqsUpTo(PureSwipeTexts, MaxPureSwipes) \ {<<>>}}

PureFrame ==
    UNCHANGED <<settings, apiAvailable, isProcessing, lastScheduledCleanup, now,
                timers, passes, inflight>>

\* isSwipeEmpty applied to the candidate text of the message
Classified ==
    /\ out' = [Quiet EXCEPT
                 !.op = "isSwipeEmpty", !.before = chat[1],
                 !.ret = IF isSwipeEmpty(chat[1].mes) THEN "true" ELSE "false"]
    /\ UNCHANGED chat
    /\ PureFrame

\* index.js cleanMessageSwipes applied to the message
Planned ==
    /\ out' = [Quiet EXCEPT
                 !.op = "cleanMessageSwipes", !.before = chat[1],
                 !.result = cleanMessageSwipes(chat[1])]
    /\ UNCHANGED chat
    /\ PureFrame

\* part_001 cleanMessageSwipes applied to the message, which it mutates
CleanedDirect ==
    LET cleaned == cleanMessageSwipesDirect(chat[1])
    IN  /\ out' = [Quiet EXCEPT
                     !.op = "cleanMessageSwipesDirect", !.before = chat[1],
                     !.result = cleaned.result]
        /\ chat' = <<cleaned.message>>
        /\ PureFrame

\* index.js:280-296 run to its end on message alone, every host call
\* resolving: for each position of todo the host removes the variant, then
\* repairAndRerenderMessage repairs the pointer and the text
RECURSIVE ApplyDelegated(_, _)
ApplyDelegated(message, todo) ==
    IF todo = <<>> THEN message
    ELSE ApplyDelegated(
             repairAndRerenderMessage(HostDelete(<<message>>, 0, Head(todo)), 0)[1],
             Tail(todo))

\* index.js cleanMessageSwipes applied to the message and, when it plans a
\* partial removal, the plan applied by delegation
AppliedDelegated ==
    LET result == cleanMessageSwipes(chat[1])
    IN  /\ out' = [Quiet EXCEPT
                     !.op = "applyDelegated", !.before = chat[1],
                     !.result = result]
        /\ chat' = IF result.modified /\ ~result.messageDeleted
                   THEN <<ApplyDelegated(chat[1],
                              SortDescending(result.emptySwipeIndexes))>>
                   ELSE chat
        /\ PureFrame

InitPure ==
    /\ chat \in {<<m>> : m \in PureMessages}
    /\ settings = [enabled |-> TRUE, autoDelete |-> TRUE]
    /\ apiAvailable = FALSE
    /\ timers = 0
    /\ Loaded

NextPure ==
    \/ Classified
    \/ Planned
    \/ CleanedDirect
    \/ AppliedDelegated

SpecPure == InitPure /\ [][NextPure]_vars

----------------------------------------------------------------------------
(* Properties.                                                             *)

\* 0 <= swipe_id < length(swipes) and mes = swipes[swipe_id]
PointerValid(m) ==
    /\ IsInteger(m.swipe_id)
    /\ m.swipe_id.n >= 0 /\ m.swipe_id.n < Len(m.swipes.a)
    /\ m.mes = At(m.swipes.a, m.swipe_id.n)

HasSwipes(m) == IsArray(m.swipes) /\ Len(m.swipes.a) > 0

\* the step just taken was a direct-mutation pass that located a message
DirectPassRan == out.op = "start" /\ out.idx >= 0

\* C1 as stated (direct mutation): whenever cleanMessageSwipes returned without
\* planning the whole-message deletion, a message with variants and an integer
\* swipe_id has swipe_id within bounds and mes = swipes[swipe_id].
C1_AfterAnyReturn ==
    (DirectPassRan /\ ~out.result.messageDeleted) =>
        LET m == chat[out.idx + 1]
        IN  (HasSwipes(out.before) /\ IsInteger(out.before.swipe_id)) =>
                PointerValid(m)

\* C1, amended (direct mutation): whenever cleanMessageSwipes returned having
\* removed some but not all variants of a message with an integer swipe_id,
\* swipe_id is within bounds of the new swipes and mes = swipes[swipe_id].
C1_AfterPartialRemoval ==
    (DirectPassRan /\ ~out.result.messageDeleted /\ out.result.removedSwipes > 0) =>
        LET m == chat[out.idx + 1]
        IN  (HasSwipes(out.before) /\ IsInteger(out.before.swipe_id)) =>
                HasSwipes(m) /\ PointerValid(m)

\* a partial removal that had to pull an overflowing pointer back
C1_Witness ==
    /\ DirectPassRan /\ ~out.result.messageDeleted
    /\ out.result.removedSwipes > 0
    /\ IsInteger(out.before.swipe_id)
    /\ out.before.swipe_id.n >= Len(chat[out.idx + 1].swipes.a)
    /\ PointerValid(chat[out.idx + 1])

\* C2: every host delete call is issued for a message that is AI-authored at
\* the time of the call, and every pointer repair (a settled variant deletion
\* that went on to the UI tick) was applied to an AI-authored message.
C2_OnlyAiTargeted ==
    /\ \A k \in 1..Len(out.calls) : ~out.calls[k].onUser
    /\ (out.op = "settled" /\ passes[out.p].pc = "uiTick") =>
           chat[passes[out.p].idx + 1].is_user = FALSE

ActivePasses == {p \in 1..MaxPasses : passes[p].pc # "idle"}

\* C3: at most one pass is executing at any instant, and a trigger (manual or
\* automatic) that arrives while a pass is in flight is dropped: it starts no
\* pass, leaves the transcript, the running pass and the host calls as they
\* are, and schedules nothing for later.
C3_SingleFlight ==
    /\ [](Cardinality(ActivePasses) <= 1)
    /\ [][(out'.op \in {"start", "dropped"} /\ ActivePasses # {}) =>
             /\ out'.op = "dropped"
             /\ chat' = chat
             /\ passes' = passes
             /\ inflight' = inflight
             /\ timers' <= timers]_vars

\* a manual trigger was dropped while a pass awaits the host
C3_Witness ==
    /\ out.op = "dropped" /\ out.isManual
    /\ \E p \in ActivePasses : passes[p].pc = "delSwipe"

\* every candidate text of m is empty: its variants when it has any, its
\* mes otherwise
AllEmpty(m) ==
    IF HasSwipes(m)
    THEN \A i \in 1..Len(m.swipes.a) : isSwipeEmpty(m.swipes.a[i])
    ELSE isSwipeEmpty(m.mes)

\* the step just taken ended a pass of processLastMessage
PassEnded == out.op \in {"start", "settled", "uiTick"} /\ out.ret \in {"true", "false"}

\* the positions at which the message a pass planned for stands now
TargetNow(mid) == {i \in 1..Len(chat) : chat[i].id = mid}

VariantDeleted == out.op = "settled" /\ passes[out.p].pc = "uiTick"

\* no host call of pass p is outstanding
NoneOutstanding(p) == \A k \in 1..Len(inflight) : inflight[k].by # p

\* C6 as stated: after each successful variant deletion, before the next one
\* is issued, a message with variants has 0 <= swipe_id < length(swipes) and
\* mes = swipes[swipe_id].
C6_RepairedExactly ==
    VariantDeleted =>
        LET m == chat[passes[out.p].idx + 1]
        IN  /\ NoneOutstanding(out.p)
            /\ HasSwipes(m) => PointerValid(m)

\* C6, amended: after each successful variant deletion, before the next one
\* is issued, a message with variants has 0 <= swipe_id < length(swipes) and
\* mes = String(swipes[swipe_id] ?? ''): the active variant when it is a
\* string, the empty string when it is null.
C6_RepairedAsString ==
    VariantDeleted =>
        LET m == chat[passes[out.p].idx + 1]
        IN  /\ NoneOutstanding(out.p)
            /\ HasSwipes(m) =>
                  /\ IsInteger(m.swipe_id)
                  /\ m.swipe_id.n >= 0 /\ m.swipe_id.n < Len(m.swipes.a)
                  /\ m.mes = StringOf(At(m.swipes.a, m.swipe_id.n))

\* a deletion in the middle of a pass left the pointer on the last variant
C6_Witness ==
    /\ VariantDeleted
    /\ passes[out.p].todo # <<>>
    /\ LET m == chat[passes[out.p].idx + 1]
       IN  /\ HasSwipes(m)
           /\ m.swipe_id = Num(Len(m.swipes.a) - 1)
           /\ m.mes = At(m.swipes.a, m.swipe_id.n)

StrictlyDescending(a) == \A i \in 1..(Len(a) - 1) : a[i] > a[i + 1]

\* C7: the positions a pass calls deleteViaApi for are strictly descending,
\* at most one host call of a pass is outstanding, and an outstanding variant
\* deletion is the one for the position attempted last.
C7_DescendingSequential ==
    /\ \A p \in 1..MaxPasses :
          LET mine == SelectSeq(inflight, LAMBDA call : call.by = p)
          IN  /\ Len(mine) <= 1
              /\ StrictlyDescending(passes[p].attempted)
              /\ passes[p].pc = "delSwipe" =>
                    /\ Len(mine) = 1
                    /\ mine[1].si = passes[p].attempted[Len(passes[p].attempted)]
              /\ passes[p].pc \in {"idle", "uiTick"} => mine = <<>>
    /\ StrictlyDescending(out.final.attempted)

\* the second deletion of a pass is outstanding, the first having settled
C7_Witness ==
    \E p \in 1..MaxPasses :
        /\ passes[p].pc = "delSwipe"
        /\ Len(passes[p].attempted) >= 2
        /\ passes[p].succeeded >= 1

\* the step just taken ended a pass in its variant loop
LoopEnded == PassEnded /\ out.final.planned # <<>>

\* C8: a pass that planned variant deletions ends only after attempting every
\* planned position, whatever failed; the count it reports is the number of
\* host deletions that succeeded, which is the number of variants the message
\* lost; it returns true exactly when that number is positive.
C8_CountsSuccesses ==
    LoopEnded =>
        LET f == out.final
            reported == {out.toasts[k].n : k \in {j \in 1..Len(out.toasts) :
                             out.toasts[j].text = "Removed empty swipes"}}
        IN  /\ f.attempted = SortDescending(f.planned)
            /\ f.todo = <<>>
            /\ IF f.succeeded > 0
               THEN reported = {f.succeeded} /\ out.ret = "true"
               ELSE reported = {} /\ out.ret = "false"
            /\ \A i \in TargetNow(f.mid) :
                  Len(chat[i].swipes.a) = f.had - f.succeeded

\* one of three planned deletions failed and the pass reported 2
C8_Witness ==
    /\ LoopEnded
    /\ Len(out.final.planned) = 3
    /\ out.final.succeeded = 2
    /\ out.ret = "true"
    /\ out.toasts[Len(out.toasts)] = Toast("info", "Removed empty swipes", 2)
    /\ apiAvailable

\* the message a pass that just ended had planned a modification of (0: none)
PlannedTarget ==
    IF out.op = "start"
    THEN IF out.result.modified THEN out.before.id ELSE 0
    ELSE out.final.mid

FullyApplied ==
    /\ PassEnded
    /\ \/ out.final.pc = "delMsg" /\ out.ret = "true"
       \/ LoopEnded /\ out.final.succeeded = Len(out.final.planned)

PlannedAllEmptyVariants ==
    /\ out.op = "start" /\ out.idx >= 0
    /\ out.isManual \/ settings.autoDelete
    /\ HasSwipes(out.before)
    /\ AllEmpty(out.before)

\* C10: a message with a variants sequence whose every variant is empty is
\* planned with messageDeleted = true, and the pass issues no per-variant
\* deletion for it: it plans no positions to walk, and its only host call, if
\* any, is the deletion of the whole message.
C10_WholeMessagePriority ==
    PlannedAllEmptyVariants =>
        /\ out.result.messageDeleted /\ out.result.modified
        /\ cleanMessageSwipes(out.before).messageDeleted
        /\ \A k \in 1..Len(out.calls) : out.calls[k].si = NoSwipe
        /\ passes[out.p].pc \in {"idle", "delMsg"}
        /\ passes[out.p].attempted = <<>>
        /\ out.final.attempted = <<>>

\* a message with a single, empty variant: the whole message is deleted
C10_Witness ==
    /\ PlannedAllEmptyVariants
    /\ Len(out.before.swipes.a) = 1
    /\ out.result.messageDeleted
    /\ out.calls = <<Call(chat, out.p, out.idx, NoSwipe)>>

\* every character of the string s is a whitespace character
OnlyWhiteSpace(s) == \A i \in 1..Len(s) : s[i] \in WhiteSpace

\* the text v is absent, null, or a string of whitespace characters only
EmptyText(v) == v \in {Undefined, Null} \/ (IsString(v) /\ OnlyWhiteSpace(v.s))

\* C11 as stated: for a message whose variants sequence is absent or empty,
\* the plan is messageDeleted = true, modified = true when mes is empty and
\* a no-op (modified = false, nothing to delete) when it is not.
C11_SoleCandidate ==
    (out.op = "cleanMessageSwipes" /\ ~HasSwipes(out.before)) =>
        IF EmptyText(out.before.mes)
        THEN out.result.messageDeleted /\ out.result.modified
        ELSE out.result = NoResult

\* C11, amended: for a message without a variants sequence (absent, null or
\* no array) the plan is messageDeleted = true, modified = true when mes is
\* empty and a no-op when it is not; for a message whose variants sequence is
\* empty the plan is a no-op whatever mes is.
C11_SoleCandidateWithoutSequence ==
    (out.op = "cleanMessageSwipes" /\ ~HasSwipes(out.before)) =>
        IF ~IsArray(out.before.swipes) /\ EmptyText(out.before.mes)
        THEN out.result = [NoResult EXCEPT !.messageDeleted = TRUE,
                                           !.modified = TRUE]
        ELSE out.result = NoResult

\* the plan for a message with no variants sequence and a blank mes
C11_Witness ==
    /\ out.op = "cleanMessageSwipes"
    /\ out.before.swipes = Undefined
    /\ out.before.mes = Str(<<" ", "\n">>)
    /\ out.result.messageDeleted /\ out.result.modified

\* swipe_info is present and index-aligned with swipes: one metadata object
\* for each variant
Aligned(m) ==
    /\ IsArray(m.swipes) /\ IsArray(m.swipe_info)
    /\ Len(m.swipe_info.a) = Len(m.swipes.a)
    /\ \A i \in 1..Len(m.swipes.a) : m.swipe_info.a[i].t = "object"

\* the 1-based positions of the non-empty variants of m
Survivors(m) == {i \in 1..Len(m.swipes.a) : ~EmptyText(m.swipes.a[i])}

\* C12: when swipe_info is index-aligned with swipes before the direct
\* cleanMessageSwipes, then afterwards it is aligned with the variants that
\* are left: where variants were removed, the variants are the non-empty ones
\* in their order and entry k of swipe_info is the entry the k-th of them had;
\* otherwise the message is as it was.
C12_MetadataAligned ==
    (out.op = "cleanMessageSwipesDirect" /\ Aligned(out.before)) =>
        LET m == chat[1]
            b == out.before
        IN  /\ Aligned(m)
            /\ IF out.result.modified /\ ~out.result.messageDeleted
               THEN /\ m.swipes.a = SelectIdx(b.swipes.a, Survivors(b), 1)
                    /\ m.swipe_info.a = SelectIdx(b.swipe_info.a, Survivors(b), 1)
               ELSE m = b

\* the first variant was removed, so the metadata of two survivors moved
C12_Witness ==
    /\ out.op = "cleanMessageSwipesDirect" /\ Aligned(out.before)
    /\ out.result.modified /\ ~out.result.messageDeleted
    /\ EmptyText(out.before.swipes.a[1])
    /\ chat[1].swipe_info = Arr(<<Obj(2), Obj(3)>>)

\* the step taken is an automatic trigger handed to scheduleAutoCleanup, for
\* a position for which a trigger was scheduled less than the window ago
RepeatedWithinWindow ==
    /\ out'.op \in {"scheduled", "deduped"}
    /\ lastScheduledCleanup.seen[out'.idx] >= 0
    /\ now - lastScheduledCleanup.seen[out'.idx] < DedupeWindowMs

\* the step schedules nothing
Discarded ==
    /\ out'.op = "deduped"
    /\ timers' = timers
    /\ lastScheduledCleanup' = lastScheduledCleanup

\* C13 as stated: an automatic trigger for a message position for which a trigger
\* was scheduled less than 500 ms ago is discarded and schedules no pass,
\* whatever other triggers arrived in between.
C13_DedupePerPosition ==
    [][(RepeatedWithinWindow /\ out'.idx >= 0) => Discarded]_vars

\* C13, amended: an automatic trigger for a position for which a trigger
\* was scheduled less than 500 ms ago is discarded and schedules no pass,
\* provided no trigger for another position was scheduled in between.
C13_DedupeLastPosition ==
    [][(/\ RepeatedWithinWindow
        /\ lastScheduledCleanup.messageIndex = Num(out'.idx)) => Discarded]_vars

\* a trigger was discarded one tick after the trigger for its position was
\* scheduled
C13_Witness ==
    /\ out.op = "deduped"
    /\ lastScheduledCleanup.seen[out.idx] = now - TickMs

\* C14 as stated, direct mutation: an automatic pass that ran with autoDelete
\* off removed no variant and no message: the message it located is still at
\* its position, exactly as it was.
C14_AutoDeleteGate ==
    (DirectPassRan /\ ~out.isManual /\ ~settings.autoDelete) =>
        /\ out.idx < Len(chat)
        /\ chat[out.idx + 1] = out.before

\* C14 for the delegated pass of index.js: an automatic pass started with
\* autoDelete off returns at once, with the located message as it was, no
\* host delete call and nothing left to do.
C14_AutoDeleteGateDelegated ==
    (out.op = "start" /\ out.idx >= 0 /\ ~out.isManual /\ ~settings.autoDelete) =>
        /\ out.idx < Len(chat)
        /\ chat[out.idx + 1] = out.before
        /\ out.calls = <<>>
        /\ passes[out.p].pc = "idle"
        /\ out.ret = "false"

\* C15 as stated, for the delegated pass of index.js: a pass that ended
\* having changed the transcript (it returned true: a message or a variant
\* was removed, and after a variant the pointer and text were repaired)
\* asked the host to persist.
C15_PersistRequested ==
    (PassEnded /\ out.ret = "true") => out.persist

\* C15 for the direct mutation of part_001: a pass after which the located
\* message is gone or differs from what it was asked the host to persist.
C15_PersistRequestedDirect ==
    (DirectPassRan /\ (out.idx >= Len(chat) \/ chat[out.idx + 1] # out.before)) =>
        out.persist

\* C16: for a message with a variants sequence, the emptySwipeIndexes of the
\* plan are exactly the positions of the empty variants, in strictly
\* ascending order (so without duplicates), removedSwipes counts them, and
\* modified is true iff there is at least one.
C16_EmptyPositions ==
    (out.op = "cleanMessageSwipes" /\ IsArray(out.before.swipes)) =>
        LET a == out.before.swipes.a
            e == out.result.emptySwipeIndexes
        IN  /\ {e[k] : k \in 1..Len(e)} =
                   {i \in 0..(Len(a) - 1) : EmptyText(a[i + 1])}
            /\ \A k \in 1..(Len(e) - 1) : e[k] < e[k + 1]
            /\ out.result.removedSwipes = Len(e)
            /\ out.result.modified <=> Len(e) > 0

\* a blank variant and a null one around a non-empty one: positions 0 and 2
C16_Witness ==
    /\ out.op = "cleanMessageSwipes"
    /\ out.before.swipes = Arr(<<Str(<<" ">>), Str(<<"a">>), Null>>)
    /\ out.result.emptySwipeIndexes = <<0, 2>>
    /\ out.result.modified /\ ~out.result.messageDeleted

\* C17: the direct cleanMessageSwipes applied to a message of which some but
\* not all variants are empty replaces swipes by the subsequence of its
\* non-empty variants, in their order; and ["", " ", "a"] with swipe_id 0
\* becomes ["a"] with swipe_id 0 and mes "a".
C17_SubsequenceKept ==
    (/\ out.op = "cleanMessageSwipesDirect"
     /\ IsArray(out.before.swipes)
     /\ Survivors(out.before) \notin {{}, 1..Len(out.before.swipes.a)}) =>
        LET m == chat[1]
            b == out.before
        IN  /\ IsArray(m.swipes)
            /\ m.swipes.a = SelectIdx(b.swipes.a, Survivors(b), 1)
            /\ \A i \in 1..Len(m.swipes.a) : ~EmptyText(m.swipes.a[i])
            /\ (/\ b.swipes = Arr(<<Str(<<>>), Str(<<" ">>), Str(<<"a">>)>>)
                /\ b.swipe_id = Num(0)) =>
                   /\ m.swipes = Arr(<<Str(<<"a">>)>>)
                   /\ m.swipe_id = Num(0)
                   /\ m.mes = Str(<<"a">>)

\* the example: ["", " ", "a"] with swipe_id 0 was cleaned to ["a"]
C17_Witness ==
    /\ out.op = "cleanMessageSwipesDirect"
    /\ out.before.swipes = Arr(<<Str(<<>>), Str(<<" ">>), Str(<<"a">>)>>)
    /\ out.before.swipe_id = Num(0)
    /\ out.before.mes = Str(<<>>)
    /\ chat[1].swipes = Arr(<<Str(<<"a">>)>>)
    /\ chat[1].mes = Str(<<"a">>)

\* C20: isSwipeEmpty is true for an absent text, for null, for the empty
\* string and for a string of whitespace only, and false for every string
\* with a character that is not whitespace.
C20_EmptyClassified ==
    out.op = "isSwipeEmpty" =>
        LET v == out.before.mes
        IN  /\ out.ret \in {"true", "false"}
            /\ (v \in {Undefined, Null, Str(<<>>)}) => out.ret = "true"
            /\ (IsString(v) /\ OnlyWhiteSpace(v.s)) => out.ret = "true"
            /\ (IsString(v) /\ ~OnlyWhiteSpace(v.s)) => out.ret = "false"

\* a string of a space and a newline was classified as empty
C20_Witness ==
    /\ out.op = "isSwipeEmpty"
    /\ out.before.mes = Str(<<" ", "\n">>)
    /\ out.ret = "true"

\* the 0-based positions of the AI-authored messages of the transcript
AiPositions == {i \in 0..(Len(chat) - 1) : chat[i + 1].is_user = FALSE}

\* the greatest of them, -1 when there is none
GreatestAiPosition ==
    IF AiPositions = {} THEN -1
    ELSE CHOOSE i \in AiPositions : \A j \in AiPositions : j <= i

\* C18: a pass, and the deletion of the last AI message, locate the greatest
\* position whose message is not user-authored, -1 when the transcript is
\* empty or holds no AI message; the calls issued at once are addressed to
\* that position, a pass keeps it for as long as it runs, and every later
\* call of the pass is addressed to it.
C18_LocatesLastAi ==
    [][/\ out'.op = "start" =>
             /\ out'.idx = GreatestAiPosition
             /\ \A k \in 1..Len(out'.calls) : out'.calls[k].mi = GreatestAiPosition
             /\ passes'[out'.p].pc # "idle" =>
                    passes'[out'.p].idx = GreatestAiPosition
       /\ out'.op = "deleteLast" =>
             \A k \in 1..Len(out'.calls) : out'.calls[k].mi = GreatestAiPosition
       /\ \A p \in 1..MaxPasses :
             (passes[p].pc # "idle" /\ passes'[p].pc # "idle") =>
                 passes'[p].idx = passes[p].idx
       /\ (out'.op \in {"settled", "uiTick"} /\ out'.p >= 1) =>
             \A k \in 1..Len(out'.calls) : out'.calls[k].mi = passes[out'.p].idx
      ]_vars

\* a pass located the AI message below a trailing user message and asked the
\* host for a deletion at that position
C18_Witness ==
    /\ out.op = "start" /\ out.idx = 0
    /\ Len(chat) = 2 /\ chat[2].is_user
    /\ out.calls # <<>> /\ out.calls[1].mi = 0

\* no candidate text of m is empty: none of its variants when it has any,
\* its mes otherwise
NoEmptyCandidate(m) ==
    IF HasSwipes(m)
    THEN \A i \in 1..Len(m.swipes.a) : ~EmptyText(m.swipes.a[i])
    ELSE ~EmptyText(m.mes)

\* there is nothing to clean: the transcript is empty, holds no AI message,
\* or its last AI message has no empty candidate
NothingToClean ==
    \/ AiPositions = {}
    \/ NoEmptyCandidate(chat[GreatestAiPosition + 1])

C21_NoDeletionBesidePass ==
    (out.op = "deleteLast" /\ out.calls # <<>>) => ActivePasses = {}

\* the message pass p planned for still stands at the position the pass
\* located: nothing but the pass's own variant deletions changed the
\* transcript since the pass started
Undisturbed(p) ==
    /\ passes[p].idx >= 0 /\ passes[p].idx < Len(chat)
    /\ chat[passes[p].idx + 1].id = passes[p].mid

\* the non-empty variants of m, in their order
NonEmptyVariants(m) == SelectIdx(m.swipes.a, Survivors(m), 1)

\* C22: in a delegated pass whose transcript is changed only by its own
\* deletions, every per-variant delete call awaited is addressed to a
\* position that exists and holds an empty variant, whether or not earlier
\* calls of the pass failed; and no step taken while the pass runs changes
\* the sequence of non-empty variants of its message.
C22_OnlyEmptyTargeted ==
    /\ [](\A k \in 1..Len(inflight) :
            LET call == inflight[k]
            IN  (call.by >= 1 /\ call.si # NoSwipe /\ Undisturbed(call.by)) =>
                    LET m == chat[call.mi + 1]
                    IN  /\ call.mi = passes[call.by].idx
                        /\ IsArray(m.swipes)
                        /\ call.si >= 0 /\ call.si < Len(m.swipes.a)
                        /\ EmptyText(m.swipes.a[call.si + 1]))
    /\ [][\A p \in 1..MaxPasses :
             (/\ passes[p].pc \in {"delSwipe", "uiTick"}
              /\ Undisturbed(p)
              /\ passes[p].idx < Len(chat')
              /\ chat'[passes[p].idx + 1].id = passes[p].mid) =>
                 /\ IsArray(chat'[passes[p].idx + 1].swipes)
                 /\ NonEmptyVariants(chat'[passes[p].idx + 1])
                        = NonEmptyVariants(chat[passes[p].idx + 1])]_vars

\* the second call of a pass is awaited after its first, for a higher
\* position, failed
C22_Witness ==
    \E k \in 1..Len(inflight) :
        LET call == inflight[k]
        IN  /\ call.by >= 1 /\ call.si = 0
            /\ Undisturbed(call.by)
            /\ Len(passes[call.by].attempted) = 2
            /\ passes[call.by].succeeded = 0
            /\ EmptyText(chat[call.mi + 1].swipes.a[1])

\* C23: isProcessing is true exactly while a pass is executing (admitted and
\* not yet ended, whether it ends by returning or by throwing), and a
\* trigger is dropped by the single-flight check only while a pass is in
\* flight.
C23_FlagTracksPass ==
    /\ [](isProcessing <=> ActivePasses # {})
    /\ [][out'.op = "dropped" => (isProcessing /\ ActivePasses # {})]_vars

\* a pass ended by throwing after a variant deletion, and the flag is clear
C23_Witness ==
    /\ out.op = "threw"
    /\ out.final.succeeded >= 1
    /\ ~isProcessing
    /\ ActivePasses = {}

\* the direct cleanMessageSwipes just removed some but not all variants of a
\* message that carried a swipe_info array
DirectlyMutatedWithInfo ==
    /\ out.op = "cleanMessageSwipesDirect"
    /\ out.result.modified /\ ~out.result.messageDeleted
    /\ IsArray(out.before.swipe_info)

\* the 1-based positions the surviving variants of m had, ascending
SurvivorPositions(m) ==
    SelectIdx([i \in 1..Len(m.swipes.a) |-> i], Survivors(m), 1)

\* swipe_info of m has a metadata object for every surviving variant
InfoForSurvivors(m) ==
    \A i \in Survivors(m) :
        i <= Len(m.swipe_info.a) /\ m.swipe_info.a[i].t = "object"

\* swipe_info of the message now has one entry per variant, entry k being the
\* entry the k-th surviving variant had before
InfoFollowsSurvivors ==
    LET m == chat[1]
        b == out.before
        pos == SurvivorPositions(b)
    IN  /\ IsArray(m.swipe_info) /\ IsArray(m.swipes)
        /\ Len(m.swipe_info.a) = Len(m.swipes.a)
        /\ \A k \in 1..Len(m.swipes.a) :
              /\ pos[k] <= Len(b.swipe_info.a)
              /\ m.swipe_info.a[k] = b.swipe_info.a[pos[k]]

\* C24 as stated: after any direct mutation of a message with swipe_info,
\* swipe_info has the length of swipes and entry k is the metadata of the
\* variant at position k, whatever entries the original swipe_info lacked.
C24_InfoAlignedAlways == DirectlyMutatedWithInfo => InfoFollowsSurvivors

\* C24, amended: the same, provided the original swipe_info had a metadata
\* object for every surviving variant (entries of removed variants may be
\* missing).
C24_InfoAlignedForSurvivors ==
    (DirectlyMutatedWithInfo /\ InfoForSurvivors(out.before)) =>
        InfoFollowsSurvivors

\* the removed first variant had no metadata entry, the two survivors had
C24_Witness ==
    /\ DirectlyMutatedWithInfo
    /\ out.before.swipe_info = Arr(<<Undefined, Obj(2), Obj(3)>>)
    /\ EmptyText(out.before.swipes.a[1])
    /\ chat[1].swipe_info = Arr(<<Obj(2), Obj(3)>>)
    /\ Len(chat[1].swipes.a) = 2

\* the direct cleanMessageSwipes just removed some but not all variants of a
\* message whose pointer was within bounds, at a non-empty variant
RemovedAroundActive ==
    /\ out.op = "cleanMessageSwipesDirect"
    /\ out.result.modified /\ ~out.result.messageDeleted
    /\ IsInteger(out.before.swipe_id)
    /\ out.before.swipe_id.n >= 0
    /\ out.before.swipe_id.n < Len(out.before.swipes.a)
    /\ ~EmptyText(At(out.before.swipes.a, out.before.swipe_id.n))

\* the number of empty variants of m below its pointer
EmptyBelowPointer(m) ==
    Cardinality({i \in 1..m.swipe_id.n : EmptyText(m.swipes.a[i])})

C26_SameOutcome ==
    (/\ out.op = "applyDelegated"
     /\ out.result.modified /\ ~out.result.messageDeleted
     /\ IsInteger(out.before.swipe_id)) =>
        LET d == cleanMessageSwipesDirect(out.before)
        IN  /\ d.result.modified /\ ~d.result.messageDeleted
            /\ d.result.removedSwipes = out.result.removedSwipes
            /\ chat[1].swipes = d.message.swipes
            /\ chat[1].swipe_id = d.message.swipe_id
            /\ chat[1].mes = d.message.mes

\* two variants removed around one survivor, the pointer pulled back from
\* the third position to the first
C26_Witness ==
    /\ out.op = "applyDelegated"
    /\ out.before.swipes = Arr(<<Null, Str(<<"a">>), Str(<<" ">>)>>)
    /\ out.before.swipe_id = Num(2)
    /\ out.before.mes = Str(<<>>)
    /\ chat[1].swipes = Arr(<<Str(<<"a">>)>>)
    /\ chat[1].swipe_id = Num(0)
    /\ chat[1].mes = Str(<<"a">>)

\* the one notification of an empty-input condition, by the condition
EmptyInputToast ==
    IF Len(chat) = 0 THEN Toast("warning", "Chat is empty", 0)
    ELSE IF AiPositions = {} THEN Toast("warning", "No AI message found", 0)
    ELSE Toast("info", "No empty swipes found", 0)

\* C27: a pass started on an empty transcript, on a transcript without AI
\* message, or on a last AI message without an empty candidate raises exactly
\* one notification when it is manual (a warning, a warning and an info
\* respectively) and none when it is automatic.
C27_EmptyInputNotified ==
    [][(out'.op = "start" /\ (Len(chat) = 0 \/ NothingToClean)) =>
          out'.toasts = IF out'.isManual THEN <<EmptyInputToast>> ELSE <<>>]_vars

\* a manual pass on a message whose variants are all non-empty reported
\* that there is nothing to clean
C27_Witness ==
    /\ out.op = "start" /\ out.isManual
    /\ out.idx >= 0 /\ HasSwipes(out.before)
    /\ Len(out.before.swipes.a) = 2
    /\ NoEmptyCandidate(out.before)
    /\ out.toasts = <<Toast("info", "No empty swipes found", 0)>>

\* the positions of the sequence a, as a set
Elements(a) == {a[k] : k \in 1..Len(a)}

\* the host calls awaited by pass p
AwaitedBy(p) == {k \in 1..Len(inflight) : inflight[k].by = p}

\* C28: provided each host call settles, every admitted pass terminates and
\* the single-flight flag is released; until then it has called the host at
\* most once for each position planned at its start and for no other, never
\* twice for a position (so never again for one that failed), awaits at
\* most one call at a time, and for a whole-message deletion issues exactly
\* one call.
C28_PassTerminates ==
    /\ [](\A p \in 1..MaxPasses :
            LET r == passes[p]
            IN  /\ Elements(r.attempted) \subseteq Elements(r.planned)
                /\ \A k, l \in 1..Len(r.attempted) :
                      r.attempted[k] = r.attempted[l] => k = l
                /\ Cardinality(AwaitedBy(p)) <= 1
                /\ r.pc = "delMsg" =>
                      /\ r.attempted = <<>>
                      /\ \E k \in AwaitedBy(p) : inflight[k].si = NoSwipe)
    /\ [](PassEnded =>
            /\ Elements(out.final.attempted) \subseteq Elements(out.final.planned)
            /\ \A k, l \in 1..Len(out.final.attempted) :
                  out.final.attempted[k] = out.final.attempted[l] => k = l)
    /\ \A p \in 1..MaxPasses :
          (passes[p].pc # "idle") ~> (passes[p].pc = "idle" /\ ~isProcessing)
    /\ isProcessing ~> ~isProcessing

\* a pass ended after both of its variant deletions failed, each position
\* called once, and the flag is released
C28_Witness ==
    /\ out.op = "settled" /\ out.ret = "false"
    /\ Len(out.final.planned) = 2
    /\ Len(out.final.attempted) = 2
    /\ out.final.succeeded = 0
    /\ ~isProcessing
    /\ ActivePasses = {}

\* the step taken is the handler of the automatic trigger
TriggerStep == out'.op \in {"triggerOff", "triggerUser", "scheduled", "deduped"}

====
